---- MODULE Spec2Model ----
(***************************************************************************)
(* Profile enrichment pipeline of group-optimizer.                         *)
(*                                                                         *)
(*   SpecLookup : URLFinder.update_person_list / fetch_linkedin_url        *)
(*                (src/src/scraper/url_finder.py)                          *)
(*   Spec       : LinkedInBatchAnalyzer.run_analysis over the roster, then  *)
(*                sort_and_print_results                                   *)
(*                (src/src/scraper/linkedin/batch_analysis.py,             *)
(*                 profile_analyzer.py, src/src/scraper/populate.py)       *)
(*   SpecSort   : sort_and_print_results on any roster                     *)
(*   SpecAnalyze : LinkedInPersonalityAnalyzer.analyze_profile on profile  *)
(*                records (src/src/scraper/linkedin/profile_analyzer.py)   *)
(*   SpecPipeline : populate.main, steps 2 to 4: find_linkedin_urls,       *)
(*                analyze_linkedin_profiles, sort_and_print_results        *)
(*                                                                         *)
(* Time is counted in whole seconds.  An optional value (Python None or a  *)
(* value) is a sequence of length at most one: None is << >>, a value x    *)
(* is <<x>>.                                                               *)
(***************************************************************************)
EXTENDS Integers, Sequences, FiniteSets, TLC

VARIABLES
    persons,            \* the roster: a sequence of Person objects (ids)
    linkedin,           \* Person.linkedin, per person
    details,            \* Person.details, per person
    personality_score,  \* Person.personality_score, per person
    now,                \* the clock read by time.time()
    rate_interval,      \* 1 / URLFinder.rate_limit_per_second, in seconds
    last_request_time,  \* URLFinder.last_request_time
    gate_wait,          \* seconds the attempt in progress slept at the rate-limit gate
    pc,                 \* position in update_person_list / fetch_linkedin_url
    idx,                \* index of the person the roster loop is at
    updated_count,      \* update_person_list's updated_count
    retries,            \* fetch_linkedin_url's retries
    delay,              \* fetch_linkedin_url's delay
    attempts,           \* outcomes of the session.get calls of the current call
    waits,              \* arguments of the backoff time.sleep calls of the call
    page,               \* the result page of the last HTTP 200 response
    result,             \* value returned by fetch_linkedin_url
    linkedin_profile,   \* run_analysis's linkedin_profile
    analysis_result,    \* run_analysis's analysis_result
    sentiment,          \* the calls of analyze_sentiment made by the
                        \* analyze_profile call: <<experience, answer>> each
    raised              \* an exception has escaped the running operation

lookupVars == <<now, rate_interval, last_request_time,
                gate_wait, pc, idx, updated_count, retries, delay, attempts,
                waits, page, result>>
personVars == <<persons, linkedin, details, personality_score>>
batchLocals == <<linkedin_profile, analysis_result, sentiment>>
vars == <<personVars, lookupVars, batchLocals, raised>>

----------------------------------------------------------------------------
(* Bounds of the model. *)

NPersons == 2
MaxItems == 2
MaxInterval == 2
MaxLatency == 1
MaxExps == 3

(* Program constants. *)

max_retries == 3
base_delay == 1

None == << >>
Some(x) == <<x>>

Ids == 1 .. NPersons

----------------------------------------------------------------------------
(* Links.  A href is a string, modelled as the sequence of its pieces; the *)
(* profile-path marker "linkedin.com/in" is the two-piece sequence Marker. *)

Marker == <<"linkedin.com", "/in">>

HrefA == <<"https://www.", "linkedin.com", "/in", "/ananya-shah">>
HrefB == <<"https://www.", "linkedin.com", "/in", "/fu-chai">>
HrefCompany == <<"https://www.", "linkedin.com", "/company", "/neu">>
HrefEmpty == << >>
HrefPre == <<"https://www.", "linkedin.com", "/in", "/siya-patel">>

Hrefs == {HrefA, HrefB, HrefCompany, HrefEmpty}

\* Python's `sub in s` on strings: sub occurs in s as a contiguous run.
Contains(s, sub) ==
    \E i \in 0 .. (Len(s) - Len(sub)) :
        \A j \in 1 .. Len(sub) : s[i + j] = sub[j]

\* Python truthiness of an optional string: None and "" are falsy.
Truthy(opt) == opt # None /\ opt[1] # << >>

----------------------------------------------------------------------------
(* Result pages.  ol: the page has <ol id="b_results">; items: its         *)
(* <li class="b_algo"> elements in document order.  An item has a          *)
(* <div class="b_tpcn"> or not, in it an <a> or not, and the <a>'s href    *)
(* (the empty string when the attribute is missing).                       *)

Items ==
    {[div |-> FALSE, a |-> FALSE, href |-> HrefEmpty],
     [div |-> TRUE, a |-> FALSE, href |-> HrefEmpty]}
    \cup {[div |-> TRUE, a |-> TRUE, href |-> h] : h \in Hrefs}

ItemSeqs == UNION {[1 .. n -> Items] : n \in 0 .. MaxItems}

NoPage == [ol |-> FALSE, items |-> << >>]

Pages == {NoPage} \cup {[ol |-> TRUE, items |-> s] : s \in ItemSeqs}

ParseResultAnyItem(pg) ==
    IF ~pg.ol THEN None
    ELSE LET good == {i \in 1 .. Len(pg.items) :
                        /\ pg.items[i].div
                        /\ pg.items[i].a
                        /\ Contains(pg.items[i].href, Marker)}
         IN IF good = {} THEN None
            ELSE Some(pg.items[CHOOSE i \in good : \A k \in good : i <= k].href)

ParseResultNoMarkerCheck(pg) ==
    IF ~pg.ol THEN None
    ELSE IF pg.items = << >> THEN None
    ELSE IF ~pg.items[1].div THEN None
    ELSE IF ~pg.items[1].a THEN None
    ELSE Some(pg.items[1].href)

\* The parse of a 200 response: the strict traversal ol -> first li ->
\* div -> a -> href, and the marker test on the href.
ParseResult(pg) ==
    IF ~pg.ol THEN None
    ELSE IF pg.items = << >> THEN None
    ELSE IF ~pg.items[1].div THEN None
    ELSE IF ~pg.items[1].a THEN None
    ELSE IF Contains(pg.items[1].href, Marker) THEN Some(pg.items[1].href)
    ELSE None

----------------------------------------------------------------------------
(* URLFinder *)

InitPersons ==
    /\ persons = [i \in Ids |-> i]
    /\ details = [p \in Ids |-> None]
    /\ personality_score = [p \in Ids |-> None]

\* URLFinder.__init__, and the clock at that time (far from 0).
InitFinder ==
    /\ rate_interval \in 1 .. MaxInterval
    /\ last_request_time = 0
    /\ now = 2 * MaxInterval
    /\ gate_wait = 0
    /\ retries = 0
    /\ delay = base_delay
    /\ attempts = << >>
    /\ waits = << >>
    /\ page = NoPage
    /\ result = None
    /\ updated_count = 0

\* url_finder.main / populate.find_linkedin_urls: a fresh URLFinder is given
\* the roster; a person may come with a pre-supplied profile URL.
InitLookup ==
    /\ InitPersons
    /\ linkedin \in [Ids -> {None, Some(HrefPre)}]
    /\ InitFinder
    /\ pc = "loop"
    /\ idx = 1
    /\ linkedin_profile = None
    /\ analysis_result = None
    /\ sentiment = << >>
    /\ raised = FALSE

finderConf == <<rate_interval, raised>>
fetchLocals == <<retries, delay, attempts, waits, page, result>>
clock == <<now, last_request_time, gate_wait>>
listLoop == <<idx, updated_count>>

\* update_person_list: the person has a URL already, nothing is looked up.
SkipPerson ==
    /\ pc = "loop"
    /\ idx <= Len(persons)
    /\ Truthy(linkedin[persons[idx]])
    /\ idx' = idx + 1
    /\ UNCHANGED <<personVars, finderConf, batchLocals, fetchLocals, clock, pc,
                   updated_count>>

NextDelayConstant(d) == d

\* delay *= 2
NextDelay(d) == d * 2

\* while retries < self.max_retries
RetryAllowed(r) == r < max_retries

BeginFetchAnyPerson ==
    /\ pc = "loop"
    /\ idx <= Len(persons)
    /\ retries' = 0
    /\ delay' = base_delay
    /\ attempts' = << >>
    /\ waits' = << >>
    /\ page' = NoPage
    /\ result' = None
    /\ pc' = IF RetryAllowed(0) THEN "gate" ELSE "returned"
    /\ UNCHANGED <<personVars, finderConf, batchLocals, clock, listLoop>>

\* update_person_list calls fetch_linkedin_url(person.name).
BeginFetch ==
    /\ pc = "loop"
    /\ idx <= Len(persons)
    /\ ~Truthy(linkedin[persons[idx]])
    /\ retries' = 0
    /\ delay' = base_delay
    /\ attempts' = << >>
    /\ waits' = << >>
    /\ page' = NoPage
    /\ result' = None
    /\ pc' = IF RetryAllowed(0) THEN "gate" ELSE "returned"
    /\ UNCHANGED <<personVars, finderConf, batchLocals, clock, listLoop>>

GateSleepNever(elapsed) == 0

\* The argument of the gate's time.sleep (0: no sleep).
GateSleep(elapsed) ==
    IF elapsed < rate_interval THEN rate_interval - elapsed ELSE 0

\* The rate-limit gate at the top of the try block: sleep until the interval
\* has elapsed since last_request_time, then record the grant.
RateLimitGate ==
    /\ pc = "gate"
    /\ LET elapsed == now - last_request_time
           slept == GateSleep(elapsed)
       IN /\ gate_wait' = slept
          /\ now' = now + slept
          /\ last_request_time' = now + slept
    /\ pc' = "request"
    /\ UNCHANGED <<personVars, finderConf, batchLocals, fetchLocals, listLoop>>

\* session.get raises a RequestException (network error, timeout): control
\* reaches the retry handler.
RequestRaises ==
    /\ pc = "request"
    /\ \E lat \in 0 .. MaxLatency : now' = now + lat
    /\ attempts' = Append(attempts, "transient")
    /\ gate_wait' = 0
    /\ pc' = "backoff"
    /\ UNCHANGED <<personVars, finderConf, batchLocals, listLoop, last_request_time,
                   retries, delay, waits, page, result>>

\* The response's status is not 200: the code raises a RequestException
\* itself, and control reaches the same retry handler.
Non200Response ==
    /\ pc = "request"
    /\ \E lat \in 0 .. MaxLatency : now' = now + lat
    /\ attempts' = Append(attempts, "transient")
    /\ gate_wait' = 0
    /\ pc' = "backoff"
    /\ UNCHANGED <<personVars, finderConf, batchLocals, listLoop, last_request_time,
                   retries, delay, waits, page, result>>

BackoffKeepsRetries ==
    /\ pc = "backoff"
    /\ waits' = Append(waits, delay)
    /\ now' = now + delay
    /\ delay' = NextDelay(delay)
    /\ pc' = "gate"
    /\ UNCHANGED <<personVars, finderConf, batchLocals, listLoop, last_request_time,
                   gate_wait, attempts, page, retries, result>>

BackoffSkipsGate ==
    /\ pc = "backoff"
    /\ waits' = Append(waits, delay)
    /\ now' = now + delay
    /\ retries' = retries + 1
    /\ delay' = NextDelay(delay)
    /\ IF RetryAllowed(retries + 1)
        THEN pc' = "request" /\ result' = result
        ELSE pc' = "returned" /\ result' = None
    /\ UNCHANGED <<personVars, finderConf, batchLocals, listLoop, last_request_time,
                   gate_wait, attempts, page>>

\* except RequestException: sleep(delay); retries += 1; delay *= 2; then the
\* loop test, and the final `return None` when the retries are exhausted.
Backoff ==
    /\ pc = "backoff"
    /\ waits' = Append(waits, delay)
    /\ now' = now + delay
    /\ retries' = retries + 1
    /\ delay' = NextDelay(delay)
    /\ IF RetryAllowed(retries + 1)
        THEN pc' = "gate" /\ result' = result
        ELSE pc' = "returned" /\ result' = None
    /\ UNCHANGED <<personVars, finderConf, batchLocals, listLoop, last_request_time,
                   gate_wait, attempts, page>>

ResponseParsedRetryOnMissing ==
    /\ pc = "request"
    /\ \E pg \in Pages, lat \in 0 .. MaxLatency :
        /\ page' = pg
        /\ result' = ParseResult(pg)
        /\ now' = now + lat
        /\ pc' = IF ParseResult(pg) = None THEN "backoff" ELSE "returned"
    /\ attempts' = Append(attempts, "ok")
    /\ gate_wait' = 0
    /\ UNCHANGED <<personVars, finderConf, batchLocals, listLoop, last_request_time,
                   retries, delay, waits>>

\* A 200 response: the page is parsed and the call returns on this attempt,
\* with the link or with None.
ResponseParsed ==
    /\ pc = "request"
    /\ \E pg \in Pages, lat \in 0 .. MaxLatency :
        /\ page' = pg
        /\ result' = ParseResult(pg)
        /\ now' = now + lat
    /\ attempts' = Append(attempts, "ok")
    /\ gate_wait' = 0
    /\ pc' = "returned"
    /\ UNCHANGED <<personVars, finderConf, batchLocals, listLoop, last_request_time,
                   retries, delay, waits>>

UnexpectedErrorRetried ==
    /\ pc = "request"
    /\ attempts' = Append(attempts, "unexpected")
    /\ gate_wait' = 0
    /\ pc' = "backoff"
    /\ UNCHANGED <<personVars, finderConf, batchLocals, listLoop, now, last_request_time,
                   retries, delay, waits, page, result>>

\* except Exception: any other exception raised in the try block is logged
\* and the call returns None.
UnexpectedError ==
    /\ pc = "request"
    /\ attempts' = Append(attempts, "unexpected")
    /\ gate_wait' = 0
    /\ result' = None
    /\ pc' = "returned"
    /\ UNCHANGED <<personVars, finderConf, batchLocals, listLoop, now, last_request_time,
                   retries, delay, waits, page>>

\* Back in update_person_list: store a found URL, sleep(1), next person.
\* The finished call's locals are gone.
FetchReturned ==
    /\ pc = "returned"
    /\ IF Truthy(result)
        THEN /\ linkedin' = [linkedin EXCEPT ![persons[idx]] = result]
             /\ updated_count' = updated_count + 1
        ELSE UNCHANGED <<linkedin, updated_count>>
    /\ now' = now + 1
    /\ idx' = idx + 1
    /\ pc' = "loop"
    /\ retries' = 0
    /\ delay' = base_delay
    /\ attempts' = << >>
    /\ waits' = << >>
    /\ page' = NoPage
    /\ result' = None
    /\ UNCHANGED <<persons, details, personality_score, finderConf,
                   batchLocals, last_request_time, gate_wait>>

\* The roster loop is over: update_person_list returns person_list.
ListDone ==
    /\ pc = "loop"
    /\ idx > Len(persons)
    /\ pc' = "done"
    /\ UNCHANGED <<personVars, finderConf, batchLocals, fetchLocals, clock, listLoop>>

NextLookup ==
    \/ SkipPerson
    \/ BeginFetch
    \/ RateLimitGate
    \/ RequestRaises
    \/ Non200Response
    \/ Backoff
    \/ ResponseParsed
    \/ UnexpectedError
    \/ FetchReturned
    \/ ListDone

SpecLookup == InitLookup /\ [][NextLookup]_vars

----------------------------------------------------------------------------
(* Profile texts.  A string is the sequence of its words; the token " "    *)
(* stands for a run of whitespace, so <<" ">> is a whitespace-only string  *)
(* and << >> the empty string.  A profile field is an optional string.     *)

\* str.lower(), word by word.
Lower(w) ==
    CASE w = "Director" -> "director"
      [] w = "Software" -> "software"
      [] w = "Engineer" -> "engineer"
      [] w = "Financial" -> "financial"
      [] w = "Analyst" -> "analyst"
      [] w = "Marketing" -> "marketing"
      [] w = "Intern" -> "intern"
      [] w = "Machine" -> "machine"
      [] w = "Learning" -> "learning"
      [] w = "Researcher" -> "researcher"
      [] w = "NEU" -> "neu"
      [] w = "2020-Present" -> "2020-present"
      [] OTHER -> w

\* The keyword words that occur inside a lower-case word as substrings
\* ("ai" occurs in "training").
Inside(w) ==
    CASE w = "analyst" -> {"analyst"}
      [] w = "community" -> {"community"}
      [] w = "director" -> {"director"}
      [] w = "learning" -> {"learning"}
      [] w = "machine" -> {"machine"}
      [] w = "marketing" -> {"marketing"}
      [] w = "software" -> {"software"}
      [] w = "team" -> {"team"}
      [] w = "training" -> {"ai"}
      [] OTHER -> {}

\* `kw in text.lower()`: a one-word keyword occurs inside some word; a
\* two-word keyword needs its words side by side (in this vocabulary a word
\* ends or starts with a keyword word only when it is that word).
HasKeyword(t, kw) ==
    IF Len(kw) = 1
        THEN \E i \in DOMAIN t : kw[1] \in Inside(Lower(t[i]))
        ELSE \E i \in 1 .. (Len(t) - 1) :
                Lower(t[i]) = kw[1] /\ Lower(t[i + 1]) = kw[2]

\* `x and x.strip()`: the field is a string with something but whitespace.
NonBlank(opt) == opt # None /\ \E i \in DOMAIN opt[1] : opt[1][i] # " "

\* len(x.split())
WordCount(t) == Cardinality({i \in DOMAIN t : t[i] # " "})

leadership_keywords ==
    {<<"president">>, <<"director">>, <<"lead">>, <<"founder">>, <<"chair">>}

community_keywords ==
    {<<"community">>, <<"team">>, <<"group">>, <<"club">>, <<"organization">>}

\* archetype_keywords, keys in declaration order, keywords lower-cased.
Archetypes == <<"Tech_Bro", "ML_AI_Cracked", "Finance_Bro", "Business_Dud">>

archetype_keywords(a) ==
    CASE a = "Tech_Bro" ->
            {<<"software">>, <<"engineering">>, <<"development">>, <<"tech">>,
             <<"coding">>, <<"programming">>, <<"web">>, <<"app">>}
      [] a = "ML_AI_Cracked" ->
            {<<"machine", "learning">>, <<"artificial", "intelligence">>,
             <<"ml">>, <<"ai">>, <<"deep", "learning">>, <<"neural">>,
             <<"data", "science">>}
      [] a = "Finance_Bro" ->
            {<<"finance">>, <<"investment">>, <<"banking">>, <<"trading">>,
             <<"portfolio">>, <<"analyst">>, <<"hedge", "fund">>}
      [] a = "Business_Dud" ->
            {<<"marketing">>, <<"communications">>, <<"sales">>,
             <<"business", "development">>, <<"strategy">>, <<"consulting">>}

ReplaceUnderscoreKept(a) == a

\* dominant_archetype.replace('_', ' ')
ReplaceUnderscore(a) ==
    CASE a = "Tech_Bro" -> "Tech Bro"
      [] a = "ML_AI_Cracked" -> "ML AI Cracked"
      [] a = "Finance_Bro" -> "Finance Bro"
      [] a = "Business_Dud" -> "Business Dud"

Min(a, b) == IF a <= b THEN a ELSE b

RECURSIVE Sum(_, _)
\* f[1] + ... + f[n]
Sum(f, n) == IF n = 0 THEN 0 ELSE f[n] + Sum(f, n - 1)

\* n / d rounded to the nearest integer, ties to the even one (d > 0).
RoundDiv(n, d) ==
    LET q == n \div d
        r == n - q * d
    IN IF 2 * r < d THEN q
       ELSE IF 2 * r > d THEN q + 1
       ELSE IF q % 2 = 0 THEN q ELSE q + 1

----------------------------------------------------------------------------
(* LinkedInPersonalityAnalyzer.  Scores are held in hundredths of a point  *)
(* (what round(x, 2) keeps): an extraversion score always is a whole       *)
(* number of hundredths; a conscientiousness score is the fraction         *)
(* ConscientiousnessNum / ConscientiousnessDen of hundredths.              *)

FollowerScoreUncapped(followers) == 2 * followers

\* follower_score = min(40, (followers / 1000) * 20), in hundredths.
FollowerScore(followers) == Min(4000, 2 * followers)

LeadershipCount(exps) ==
    Cardinality({i \in DOMAIN exps :
        /\ NonBlank(exps[i].role)
        /\ \E kw \in leadership_keywords : HasKeyword(exps[i].role[1], kw)})

CommunityCount(exps) ==
    Cardinality({i \in DOMAIN exps :
        /\ NonBlank(exps[i].description)
        /\ \E kw \in community_keywords :
                HasKeyword(exps[i].description[1], kw)})

calculate_extraversion_scoreNoPartCaps(profile) ==
    LET exps == profile.Experiences
    IN Min(10000, FollowerScore(profile.Followers)
                    + 1000 * LeadershipCount(exps)
                    + 1000 * CommunityCount(exps))

\* calculate_extraversion_score, in hundredths.
calculate_extraversion_score(profile) ==
    LET exps == profile.Experiences
        leadership_score == Min(30, 10 * LeadershipCount(exps))
        community_score == Min(30, 10 * CommunityCount(exps))
    IN Min(10000, FollowerScore(profile.Followers)
                    + 100 * leadership_score + 100 * community_score)

\* The points one experience earns for completeness (before min(10, .)).
CurrentExpScore(exp) ==
    (IF NonBlank(exp.role) THEN 3 ELSE 0)
    + (IF NonBlank(exp.date_range) THEN 3 ELSE 0)
    + (IF NonBlank(exp.description) THEN 4 ELSE 0)

CountsAsValidAnyField(exp) ==
    \/ Truthy(exp.role)
    \/ Truthy(exp.company)
    \/ Truthy(exp.date_range)
    \/ Truthy(exp.description)

\* The experience is not skipped as completely empty and earns points.
CountsAsValid(exp) ==
    /\ \/ Truthy(exp.role)
       \/ Truthy(exp.company)
       \/ Truthy(exp.date_range)
       \/ Truthy(exp.description)
    /\ CurrentExpScore(exp) > 0

\* valid_experiences of calculate_conscientiousness_score
ValidExperiences(exps) ==
    Cardinality({i \in DOMAIN exps : CountsAsValid(exps[i])})

ExpScore(exps) ==
    Sum([i \in DOMAIN exps |->
            IF CountsAsValid(exps[i]) THEN Min(10, CurrentExpScore(exps[i]))
            ELSE 0],
        Len(exps))

DurationScoreFromZero(valid) == IF valid >= 4 THEN 20 ELSE 10

\* duration_score: 20 from four valid experiences on, 10 from two on.
DurationScore(valid) == IF valid >= 4 THEN 20 ELSE IF valid >= 2 THEN 10 ELSE 0

DescScore(exps) ==
    5 * Cardinality({i \in DOMAIN exps :
            /\ NonBlank(exps[i].description)
            /\ WordCount(exps[i].description[1]) >= 20})

ConscientiousnessDen(profile) ==
    IF ValidExperiences(profile.Experiences) > 0
        THEN ValidExperiences(profile.Experiences) ELSE 1

\* calculate_conscientiousness_score, in hundredths, times the denominator.
ConscientiousnessNum(profile) ==
    LET exps == profile.Experiences
        valid == ValidExperiences(exps)
        den == ConscientiousnessDen(profile)
        verification == IF profile.Verified THEN 20 ELSE 0
        normalized_exp_score ==
            IF valid > 0 THEN Min(4000 * den, 400 * ExpScore(exps)) ELSE 0
    IN Min(10000 * den,
           100 * den * (verification + DurationScore(valid) + DescScore(exps))
             + normalized_exp_score)

\* The text determine_archetype scans for one experience.
ExperienceText(exp) ==
    (IF NonBlank(exp.role) THEN exp.role[1] ELSE << >>)
    \o (IF NonBlank(exp.description) THEN exp.description[1] ELSE << >>)

\* The experiences determine_archetype passes to the sentiment capability.
Contributing(exps) ==
    {i \in DOMAIN exps :
        NonBlank(exps[i].role) \/ NonBlank(exps[i].description)}

DudEnergyIgnoringCount(profile) ==
    /\ calculate_extraversion_score(profile) < 2100
    /\ ConscientiousnessNum(profile) < 3100 * ConscientiousnessDen(profile)

DudEnergyValidCount(profile) ==
    /\ ValidExperiences(profile.Experiences) < 3
    /\ calculate_extraversion_score(profile) < 2100
    /\ ConscientiousnessNum(profile) < 3100 * ConscientiousnessDen(profile)

\* if len(experiences) < 3 and extraversion < 21 and conscientiousness < 31
DudEnergy(profile) ==
    /\ Len(profile.Experiences) < 3
    /\ calculate_extraversion_score(profile) < 2100
    /\ ConscientiousnessNum(profile) < 3100 * ConscientiousnessDen(profile)

\* The sentiment capability's answers to one analyze_profile call, by
\* experience: "positive" (POSITIVE above 0.6), "other", or "error" (the
\* pipeline raises).
SentimentOutcomes == {"positive", "other", "error"}

\* Twice archetype a's keyword score, summed over the experiences.
ArchetypeScore(profile, sent, a) ==
    LET exps == profile.Experiences
    IN Sum([i \in DOMAIN exps |->
               IF i \in Contributing(exps)
                   THEN Cardinality({kw \in archetype_keywords(a) :
                            HasKeyword(ExperienceText(exps[i]), kw)})
                        * (IF sent[i] = "positive" THEN 3 ELSE 2)
                   ELSE 0],
           Len(exps))

RECURSIVE AskedUpTo(_, _, _)
\* The analyze_sentiment calls of the loop over the first n experiences:
\* one per experience with text, in order, up to a call that raises.
AskedUpTo(exps, sent, n) ==
    IF n = 0 THEN << >>
    ELSE LET before == AskedUpTo(exps, sent, n - 1)
         IN IF \/ n \notin Contributing(exps)
               \/ (before # << >> /\ before[Len(before)][2] = "error")
                THEN before
                ELSE Append(before, <<n, sent[n]>>)

SentimentCallsBeforeDudCheck(profile, sent) ==
    AskedUpTo(profile.Experiences, sent, Len(profile.Experiences))

\* The analyze_sentiment calls determine_archetype makes: none when the
\* Dud rule returns first.
SentimentCalls(profile, sent) ==
    IF DudEnergy(profile) THEN << >>
    ELSE AskedUpTo(profile.Experiences, sent, Len(profile.Experiences))

\* determine_archetype raises (analyze_sentiment's RuntimeError).
ArchetypeRaises(profile, sent) ==
    /\ ~DudEnergy(profile)
    /\ \E i \in Contributing(profile.Experiences) : sent[i] = "error"

determine_archetypeLastOnTie(profile, sent) ==
    IF DudEnergy(profile) THEN "Dud energy"
    ELSE IF Contributing(profile.Experiences) = {} THEN "Business_Dud"
    ELSE LET score(k) == ArchetypeScore(profile, sent, Archetypes[k])
             best == CHOOSE k \in DOMAIN Archetypes :
                        /\ \A j \in DOMAIN Archetypes : score(j) <= score(k)
                        /\ \A j \in (k + 1) .. Len(Archetypes) :
                                score(j) < score(k)
         IN IF score(best) = 0 THEN "Business_Dud"
            ELSE ReplaceUnderscore(Archetypes[best])

\* determine_archetype, when it does not raise.  The normalized scores all
\* are the sums divided by the same count, so the sums decide the maximum.
determine_archetype(profile, sent) ==
    IF DudEnergy(profile) THEN "Dud energy"
    ELSE IF Contributing(profile.Experiences) = {} THEN "Business_Dud"
    ELSE LET score(k) == ArchetypeScore(profile, sent, Archetypes[k])
             best == CHOOSE k \in DOMAIN Archetypes :
                        /\ \A j \in DOMAIN Archetypes : score(j) <= score(k)
                        /\ \A j \in 1 .. (k - 1) : score(j) < score(k)
         IN IF score(best) = 0 THEN "Business_Dud"
            ELSE ReplaceUnderscore(Archetypes[best])

\* The dict analyze_profile compiles and returns.
Analysis(name, extraversion, conscientiousness, archetype, fit) ==
    [name |-> name,
     extraversion_score |-> extraversion,
     conscientiousness_score |-> conscientiousness,
     archetype |-> archetype,
     group_project_fit_score |-> fit]

\* analyze_profile raises RuntimeError.
AnalyzeRaises(profile, sent) == ArchetypeRaises(profile, sent)

analyze_profileSwappedWeights(profile, sent) ==
    LET e == calculate_extraversion_score(profile)
        n == ConscientiousnessNum(profile)
        d == ConscientiousnessDen(profile)
    IN Analysis(profile.Name, e, RoundDiv(n, d),
                determine_archetype(profile, sent),
                RoundDiv(6 * e * d + 4 * n, 10 * d))

\* analyze_profile's result when it does not raise (the dict handed over by
\* run_analysis has no 'About' key).
analyze_profile(profile, sent) ==
    LET e == calculate_extraversion_score(profile)
        n == ConscientiousnessNum(profile)
        d == ConscientiousnessDen(profile)
    IN Analysis(profile.Name, e, RoundDiv(n, d),
                determine_archetype(profile, sent),
                RoundDiv(4 * e * d + 6 * n, 10 * d))

----------------------------------------------------------------------------
(* Profiles the scraper may hand over. *)

Exp(role, company, date_range, description) ==
    [role |-> role, company |-> company, date_range |-> date_range,
     description |-> description]

TextDirector == <<"Director">>
TextOutreach == <<"led", "the", "team", "community", "outreach">>
TextEngineer == <<"Software", "Engineer">>
TextAnalyst == <<"Financial", "Analyst">>
TextIntern == <<"Marketing", "Intern">>
TextResearcher == <<"Machine", "Learning", "Researcher">>
TextNEU == <<"NEU">>
TextDates == <<"2020-Present">>
\* A description of 20 words.
TextTraining ==
    [i \in 1 .. 20 |->
        IF i = 1 THEN "training" ELSE IF i = 2 THEN "students" ELSE "work"]

\* LinkedInProfile(): what scrape_profile returns when scraping fails.
DefaultProfile ==
    [name |-> "", followers |-> 0, verified |-> FALSE, experiences |-> << >>]

ProfileB ==
    [name |-> "B", followers |-> 2000, verified |-> TRUE,
     experiences |->
        <<Exp(Some(TextDirector), None, None, Some(TextOutreach))>>]

ProfileQuiet ==
    [name |-> "Q", followers |-> 100, verified |-> FALSE,
     experiences |-> <<Exp(Some(TextIntern), None, None, None)>>]

ProfileEngineer ==
    [name |-> "E", followers |-> 500, verified |-> FALSE,
     experiences |->
        <<Exp(Some(TextEngineer), Some(TextNEU), Some(TextDates), None),
          Exp(Some(TextAnalyst), None, Some(TextDates), Some(TextTraining)),
          Exp(None, None, None, None)>>]

ScrapedProfiles == {ProfileB, ProfileQuiet, ProfileEngineer}

\* _profile_to_dict
ProfileToDict(lp) ==
    [Name |-> lp.name, Followers |-> lp.followers, Verified |-> lp.verified,
     Experiences |-> lp.experiences]

\* scrape_profile(url): the parsed profile, or the default profile when
\* anything raises; driver.get(None) raises.
ScrapeOutcomes(url) ==
    IF url = None THEN {DefaultProfile}
    ELSE ScrapedProfiles \cup {DefaultProfile}

----------------------------------------------------------------------------
(* LinkedInBatchAnalyzer.run_analysis and sort_and_print_results *)

lookupIdle == <<now, rate_interval, last_request_time, gate_wait,
                updated_count, retries, delay, attempts, waits, page, result>>

\* The roster run_analysis is given: the persons as the lookup stage can
\* leave them, with a profile URL or without.
Init ==
    /\ InitPersons
    /\ linkedin \in [Ids -> {None, Some(HrefA)}]
    /\ InitFinder
    /\ pc = "login"
    /\ idx = 1
    /\ linkedin_profile = None
    /\ analysis_result = None
    /\ sentiment = << >>
    /\ raised = FALSE

LoginFailsDropsRoster ==
    /\ pc = "login"
    /\ pc' = "done"
    /\ persons' = << >>
    /\ UNCHANGED <<linkedin, details, personality_score, lookupIdle,
                   batchLocals, idx, raised>>

\* self.login() is False: the list is returned as it came.
LoginFails ==
    /\ pc = "login"
    /\ pc' = "done"
    /\ UNCHANGED <<personVars, lookupIdle, batchLocals, idx, raised>>

LoginSucceeds ==
    /\ pc = "login"
    /\ pc' = "scrape"
    /\ idx' = 1
    /\ UNCHANGED <<personVars, lookupIdle, batchLocals, raised>>

\* linkedin_profile = self.scraper.scrape_profile(person.linkedin); the
\* result is an object, so `if not linkedin_profile` never holds, and the
\* loop body goes on in any case.
ScrapeProfile ==
    /\ pc = "scrape"
    /\ idx <= Len(persons)
    /\ linkedin_profile' \in
            {Some(lp) : lp \in ScrapeOutcomes(linkedin[persons[idx]])}
    /\ pc' = "analyze"
    /\ UNCHANGED <<personVars, lookupIdle, analysis_result, sentiment, idx,
                   raised>>

\* analysis_result = self.analyzer.analyze_profile(profile_dict)
AnalyzeProfile ==
    /\ pc = "analyze"
    /\ LET profile == ProfileToDict(linkedin_profile[1])
       IN \E sent \in [DOMAIN profile.Experiences -> SentimentOutcomes] :
            /\ ~AnalyzeRaises(profile, sent)
            /\ analysis_result' = Some(analyze_profile(profile, sent))
            /\ sentiment' = SentimentCalls(profile, sent)
    /\ pc' = "store"
    /\ UNCHANGED <<personVars, lookupIdle, linkedin_profile, idx, raised>>

\* analyze_profile raises RuntimeError; run_analysis has no handler, the
\* exception leaves it.
AnalyzeProfileRaises ==
    /\ pc = "analyze"
    /\ LET profile == ProfileToDict(linkedin_profile[1])
       IN \E sent \in [DOMAIN profile.Experiences -> SentimentOutcomes] :
            /\ AnalyzeRaises(profile, sent)
            /\ sentiment' = SentimentCalls(profile, sent)
    /\ raised' = TRUE
    /\ pc' = "raised"
    /\ UNCHANGED <<personVars, lookupIdle, linkedin_profile, analysis_result,
                   idx>>

StoreDetailsPiecewise ==
    /\ pc = "store"
    /\ details' = [details EXCEPT ![persons[idx]] =
            Some([k \in {"name", "extraversion_score",
                         "conscientiousness_score",
                         "group_project_fit_score"} |-> analysis_result[1][k]])]
    /\ pc' = "score"
    /\ UNCHANGED <<persons, linkedin, personality_score, lookupIdle,
                   batchLocals, idx, raised>>

StoreDetailsUnlessDefault ==
    /\ pc = "store"
    /\ details' = [details EXCEPT ![persons[idx]] =
            IF linkedin_profile = Some(DefaultProfile) THEN None
            ELSE analysis_result]
    /\ pc' = "score"
    /\ UNCHANGED <<persons, linkedin, personality_score, lookupIdle,
                   batchLocals, idx, raised>>

\* person.details = analysis_result
StoreDetails ==
    /\ pc = "store"
    /\ details' = [details EXCEPT ![persons[idx]] = analysis_result]
    /\ pc' = "score"
    /\ UNCHANGED <<persons, linkedin, personality_score, lookupIdle,
                   batchLocals, idx, raised>>

\* dict.get(key): the value, or None when the key is missing.
Get(d, key) == IF key \in DOMAIN d THEN Some(d[key]) ELSE None

\* person.set_personality_score(analysis_result.get('personality_score')),
\* and on to the next person.
SetPersonalityScore ==
    /\ pc = "score"
    /\ personality_score' =
            [personality_score EXCEPT ![persons[idx]] =
                Get(analysis_result[1], "personality_score")]
    /\ idx' = idx + 1
    /\ linkedin_profile' = None
    /\ analysis_result' = None
    /\ sentiment' = << >>
    /\ pc' = "scrape"
    /\ UNCHANGED <<persons, linkedin, details, lookupIdle, raised>>

\* The loop is over: self.scraper.close(); return persons.
CloseAndReturn ==
    /\ pc = "scrape"
    /\ idx > Len(persons)
    /\ pc' = "done"
    /\ UNCHANGED <<personVars, lookupIdle, batchLocals, idx, raised>>

SortKeyMissingFirst(p) ==
    IF details[p] # None /\ DOMAIN details[p][1] # {}
        THEN IF "group_project_fit_score" \in DOMAIN details[p][1]
                THEN details[p][1].group_project_fit_score
                ELSE 0
        ELSE 10001

\* key=lambda p: p.details.get('group_project_fit_score', 0)
\*               if p.details else 0
SortKey(p) ==
    IF details[p] # None /\ DOMAIN details[p][1] # {}
        THEN IF "group_project_fit_score" \in DOMAIN details[p][1]
                THEN details[p][1].group_project_fit_score
                ELSE 0
        ELSE 0

RECURSIVE InsertByKey(_, _)
\* x goes behind every element whose key is not smaller.
InsertByKey(x, s) ==
    IF s = << >> THEN <<x>>
    ELSE IF SortKey(Head(s)) >= SortKey(x)
        THEN <<Head(s)>> \o InsertByKey(x, Tail(s))
    ELSE <<x>> \o s

RECURSIVE SortDescending(_)
\* list.sort(key=..., reverse=True): a stable sort, highest key first, equal
\* keys in their original order.
SortDescending(s) ==
    IF s = << >> THEN << >>
    ELSE InsertByKey(s[Len(s)], SortDescending(SubSeq(s, 1, Len(s) - 1)))

\* sort_and_print_results(persons)
SortAndPrint ==
    /\ pc = "done"
    /\ persons' = SortDescending(persons)
    /\ pc' = "sorted"
    /\ UNCHANGED <<linkedin, details, personality_score, lookupIdle,
                   batchLocals, idx, raised>>

Next ==
    \/ LoginFails
    \/ LoginSucceeds
    \/ ScrapeProfile
    \/ AnalyzeProfile
    \/ AnalyzeProfileRaises
    \/ StoreDetails
    \/ SetPersonalityScore
    \/ CloseAndReturn
    \/ SortAndPrint

Spec == Init /\ [][Next]_vars

\* The analysis with a sentiment capability that never answers "positive".
PlainAnalysis(lp) ==
    analyze_profile(ProfileToDict(lp),
                    [i \in DOMAIN lp.experiences |-> "other"])

\* What Person.details can hold when the roster is sorted: nothing, an
\* analysis, or (by set_details) a dict without a fit score.
SortInputs ==
    {None, Some([name |-> "X"])}
    \cup {Some(PlainAnalysis(lp)) : lp \in ScrapedProfiles \cup {DefaultProfile}}

\* sort_and_print_results is given a roster in any order with any details.
InitSort ==
    /\ persons \in {s \in [Ids -> Ids] : \A i, j \in Ids : s[i] = s[j] => i = j}
    /\ details \in [Ids -> SortInputs]
    /\ personality_score = [p \in Ids |-> None]
    /\ linkedin = [p \in Ids |-> None]
    /\ InitFinder
    /\ pc = "done"
    /\ idx = 1
    /\ linkedin_profile = None
    /\ analysis_result = None
    /\ sentiment = << >>
    /\ raised = FALSE

NextSort == SortAndPrint

SpecSort == InitSort /\ [][NextSort]_vars

----------------------------------------------------------------------------
(* populate.main: step 2 (find_linkedin_urls), step 3                      *)
(* (analyze_linkedin_profiles) and step 4 (sort_and_print_results).        *)

stepFrame == <<personVars, now, rate_interval, last_request_time, gate_wait,
               idx, updated_count, retries, delay, attempts, waits, page,
               result, batchLocals>>

\* profile_urls = [person.linkedin for person in persons if person.linkedin]
profile_urls == SelectSeq([i \in DOMAIN persons |-> linkedin[persons[i]]], Truthy)

FindLinkedinUrlsReturnsEarly ==
    /\ pc = "loop"
    /\ pc' = "step3"
    /\ UNCHANGED <<stepFrame, raised>>

\* update_person_list has gone through the roster and returns it;
\* find_linkedin_urls returns it to main, which goes on to step 3.
FindLinkedinUrlsReturns ==
    /\ pc = "loop"
    /\ idx > Len(persons)
    /\ pc' = "step3"
    /\ UNCHANGED <<stepFrame, raised>>

\* analyze_linkedin_profiles: run_analysis(profile_urls) cannot log in and
\* returns at once; the roster is returned as it is.
AnalyzeLoginFails ==
    /\ pc = "step3"
    /\ pc' = "done"
    /\ UNCHANGED <<stepFrame, raised>>

\* Logged in, and profile_urls is empty: run_analysis's loop has nothing to
\* do; the roster is returned as it is.
AnalyzeNothing ==
    /\ pc = "step3"
    /\ profile_urls = << >>
    /\ pc' = "done"
    /\ UNCHANGED <<stepFrame, raised>>

\* Logged in, and profile_urls is not empty: run_analysis is given strings,
\* and its first statement on the first of them, person.name, raises
\* AttributeError; nothing catches it.
AnalyzeRaisesOnUrl ==
    /\ pc = "step3"
    /\ profile_urls # << >>
    /\ raised' = TRUE
    /\ pc' = "raised"
    /\ UNCHANGED stepFrame

NextPipeline ==
    \/ SkipPerson
    \/ BeginFetch
    \/ RateLimitGate
    \/ RequestRaises
    \/ Non200Response
    \/ Backoff
    \/ ResponseParsed
    \/ UnexpectedError
    \/ FetchReturned
    \/ FindLinkedinUrlsReturns
    \/ AnalyzeLoginFails
    \/ AnalyzeNothing
    \/ AnalyzeRaisesOnUrl
    \/ SortAndPrint

SpecPipeline == InitLookup /\ [][NextPipeline]_vars

----------------------------------------------------------------------------
(* analyze_profile on profile records of any content. *)

\* Follower counts of a record; a malformed record has a negative one.
FollowerCounts == {-1000, 0, 100, 1000, 1975, 2000, 2500}

\* The experience entries a record is made of.
ExperiencePool ==
    {Exp(Some(TextIntern), None, None, None),
     Exp(Some(TextDirector), None, None, Some(TextOutreach))}

RECURSIVE SeqsUpTo(_, _)
\* The sequences over S of length at most n.
SeqsUpTo(S, n) ==
    IF n = 0 THEN {<< >>}
    ELSE LET shorter == SeqsUpTo(S, n - 1)
         IN shorter \cup {Append(q, x) : q \in shorter, x \in S}

ProfileRecords ==
    {[name |-> "P", followers |-> f, verified |-> v, experiences |-> e] :
        f \in FollowerCounts, v \in BOOLEAN,
        e \in SeqsUpTo(ExperiencePool, MaxExps)}

\* Experience entries with single fields, with nothing, and with a role of
\* whitespace only.
ExpEmpty == Exp(None, None, None, None)
ExpCompanyOnly == Exp(None, Some(TextNEU), None, None)
ExpBlankRole == Exp(Some(<<" ">>), None, None, None)
ExpIntern == Exp(Some(TextIntern), None, None, None)
ExpDirectorOnly == Exp(Some(TextDirector), None, None, None)
ExpOutreachOnly == Exp(None, None, None, Some(TextOutreach))
ExpEngineerOnly == Exp(Some(TextEngineer), None, None, None)
ExpAnalystOnly == Exp(Some(TextAnalyst), None, None, None)
ExpResearcherOnly == Exp(Some(TextResearcher), None, None, None)
ExpDirectorOutreach == Exp(Some(TextDirector), None, None, Some(TextOutreach))

\* Experience lists that reach the corners of the scoring and labelling
\* rules: entries that are present but earn nothing, four entries of a kind,
\* keywords of two archetypes, entries without any text.
SpecialExperienceLists ==
    {<<ExpCompanyOnly, ExpIntern>>,
     <<ExpCompanyOnly, ExpIntern, ExpIntern, ExpIntern>>,
     <<ExpBlankRole, ExpIntern>>,
     <<ExpDirectorOutreach, ExpDirectorOutreach, ExpDirectorOutreach,
       ExpDirectorOutreach>>,
     <<ExpDirectorOnly, ExpOutreachOnly>>,
     <<ExpAnalystOnly, ExpEngineerOnly>>,
     <<ExpResearcherOnly, ExpEngineerOnly>>,
     <<ExpEmpty, ExpEmpty, ExpEmpty>>,
     <<ExpEmpty, ExpEmpty>>}

SpecialRecords ==
    {[name |-> "P", followers |-> f, verified |-> v, experiences |-> e] :
        f \in {0, 2000}, v \in BOOLEAN, e \in SpecialExperienceLists}

\* A record is about to be handed to analyze_profile.
InitAnalyze ==
    /\ InitPersons
    /\ linkedin = [p \in Ids |-> None]
    /\ InitFinder
    /\ rate_interval = 1
    /\ pc = "analyze"
    /\ idx = 1
    /\ linkedin_profile \in {Some(lp) : lp \in ProfileRecords \cup SpecialRecords}
    /\ analysis_result = None
    /\ sentiment = << >>
    /\ raised = FALSE

NextAnalyze ==
    \/ AnalyzeProfile
    \/ AnalyzeProfileRaises

SpecAnalyze == InitAnalyze /\ [][NextAnalyze]_vars

----------------------------------------------------------------------------
(* Claims about URLFinder, checked under SpecLookup. *)

LastAttempt == attempts[Len(attempts)]

AllTransient == \A i \in DOMAIN attempts : attempts[i] = "transient"

\* C1: a lookup whose every request attempt fails transiently makes exactly
\* max_retries attempts, sleeps base_delay, 2*base_delay, 4*base_delay after
\* them in that order, and returns None without raising.
C1_RetryExhaustion ==
    /\ \A i \in DOMAIN waits : waits[i] = base_delay * 2 ^ (i - 1)
    /\ (pc = "returned" /\ attempts # << >> /\ AllTransient) =>
        /\ Len(attempts) = max_retries
        /\ Len(waits) = max_retries
        /\ result = None
        /\ ~raised

C1_Witness ==
    /\ pc = "returned"
    /\ attempts = <<"transient", "transient", "transient">>
    /\ waits = <<base_delay, 2 * base_delay, 4 * base_delay>>

\* C2: every grant of the rate-limit gate comes at least 1/rate seconds after
\* the grant before it (the previous value of last_request_time), and sets
\* last_request_time to the time of the new grant.
C2_MinRequestSpacing ==
    [][(pc = "gate" /\ pc' = "request") =>
        /\ last_request_time' >= last_request_time + rate_interval
        /\ last_request_time' = now']_vars

\* The gate had to sleep before a retry of the same name ...
C2_Witness ==
    /\ pc = "request"
    /\ gate_wait > 0
    /\ retries > 0
    /\ last_request_time = now

MarkupMissing(pg) ==
    \/ ~pg.ol
    \/ pg.items = << >>
    \/ ~pg.items[1].div
    \/ ~pg.items[1].a

\* The link of a result item: the href of its <a>, if it has one.
LinkOf(item) ==
    IF item.div /\ item.a /\ item.href # HrefEmpty THEN Some(item.href) ELSE None

PageFetched == pc = "returned" /\ attempts # << >> /\ LastAttempt = "ok"

\* C3 as stated: with the page fetched, the call returns None for zero
\* result items and otherwise the link of the first result item.
C3_FirstItemLinkReturned ==
    (PageFetched /\ page.ol) =>
        IF page.items = << >> THEN result = None
        ELSE result = LinkOf(page.items[1])

\* C3 amended: with the page fetched, the call returns None for zero result
\* items; otherwise it returns the first item's link if that link contains
\* the profile-path marker and None if not; never a later item's link.
C3_FirstItemProfileLinkReturned ==
    PageFetched =>
        /\ (~page.ol \/ page.items = << >>) => result = None
        /\ (page.ol /\ page.items # << >>) =>
            /\ result \in {None, LinkOf(page.items[1])}
            /\ result # None <=>
                 /\ LinkOf(page.items[1]) # None
                 /\ Contains(page.items[1].href, Marker)

\* Several items, the first one's link is no profile link, the second one's
\* is: the call returns None.
C3_Witness ==
    /\ PageFetched
    /\ page.ol
    /\ Len(page.items) >= 2
    /\ LinkOf(page.items[1]) = Some(HrefCompany)
    /\ LinkOf(page.items[2]) = Some(HrefA)
    /\ result = None

NotAccepted(pg) ==
    \/ MarkupMissing(pg)
    \/ ~Contains(pg.items[1].href, Marker)

----------------------------------------------------------------------------
(* Claims about run_analysis, checked under Spec. *)

Current == persons[idx]

\* C6 as stated: for a person without a profile URL, run_analysis computes
\* no analysis and leaves the person's details unset.
C6_UnresolvedPersonSkipped ==
    \A p \in Ids :
        linkedin[p] = None =>
            /\ details[p] = None
            /\ ~(pc \in {"store", "score"} /\ Current = p)

\* C7 as stated: a person whose profile extraction yields the default empty
\* LinkedInProfile is skipped: no analysis is computed for them and their
\* details stay unset.
C7_FailedExtractionSkipped ==
    (/\ pc \in {"store", "score"}
     /\ linkedin[Current] # None
     /\ linkedin_profile = Some(DefaultProfile)) =>
        /\ analysis_result = None
        /\ details[Current] = None

\* C8 as stated: no failure while one person is enriched, an error raised
\* by analyze_profile included, leaves run_analysis.
C8_BatchNeverAborts == ~raised

ScoreKeys ==
    {"extraversion_score", "conscientiousness_score", "group_project_fit_score"}

Has(p, key) == details[p] # None /\ key \in DOMAIN details[p][1]

\* C9: in every state of a batch each person's scores and archetype are both
\* unset or both set: person.details is unset, or it holds the two scores,
\* the fit score and the archetype together.
C9_ScoresAndArchetypeTogether ==
    \A p \in Ids :
        /\ (\E k \in ScoreKeys : Has(p, k)) <=> Has(p, "archetype")
        /\ (\E k \in ScoreKeys : Has(p, k)) => \A k \in ScoreKeys : Has(p, k)
        /\ details[p] # None => Has(p, "archetype")

\* Mid-batch: the first person is enriched, the second not yet.
C9_Witness ==
    /\ pc = "analyze"
    /\ idx = 2
    /\ Has(persons[1], "archetype")
    /\ Has(persons[1], "group_project_fit_score")
    /\ details[persons[2]] = None

----------------------------------------------------------------------------
(* Claims about sort_and_print_results, checked under SpecSort. *)

\* The fit score a person is ranked by: 0 without details or fit score.
FitOrZero(p) ==
    IF Has(p, "group_project_fit_score")
        THEN details[p][1].group_project_fit_score ELSE 0

\* C10: the sorted roster holds every person once, in order of
\* non-increasing fit score with a missing score counted as 0, so a person
\* without details stands behind every person with a positive score.
C10_SortedByFitDescending ==
    pc = "sorted" =>
        /\ Len(persons) = NPersons
        /\ \A p \in Ids : \E i \in DOMAIN persons : persons[i] = p
        /\ \A i, j \in DOMAIN persons :
            i < j => FitOrZero(persons[i]) >= FitOrZero(persons[j])
        /\ \A i, j \in DOMAIN persons :
            (details[persons[i]] = None /\ FitOrZero(persons[j]) > 0) => j < i

C10_Witness ==
    /\ pc = "sorted"
    /\ details[persons[Len(persons)]] = None
    /\ FitOrZero(persons[1]) > 0
    /\ persons[1] > persons[Len(persons)]

----------------------------------------------------------------------------
(* Claims about the pipeline, checked under SpecPipeline. *)

\* Step 2 is running.
InLookupStage == pc \notin {"step3", "done", "sorted", "raised"}

\* C11 as stated: when a step for one person is in progress, every person
\* before them in the roster is fully processed: if they have a profile URL
\* they have been scored and classified.
C11_PersonByPerson ==
    (InLookupStage /\ idx <= Len(persons)) =>
        \A j \in 1 .. (idx - 1) :
            Truthy(linkedin[persons[j]]) => details[persons[j]] # None

\* C11, amended: the pipeline works stage by stage, one person at a time
\* within the lookup stage.  While URLs are looked up nothing is scraped,
\* scored or classified, and the persons behind the current one are as they
\* came; the next stage starts only when the lookup loop has passed the last
\* person.
C11_StageByStage ==
    /\ InLookupStage =>
        /\ \A p \in Ids : details[p] = None /\ personality_score[p] = None
        /\ linkedin_profile = None /\ analysis_result = None
        /\ sentiment = << >>
        /\ \A j \in (idx + 1) .. Len(persons) :
                linkedin[persons[j]] \in {None, Some(HrefPre)}
    /\ ~InLookupStage => idx > Len(persons)

\* The lookup of the second person is under way; the first has been given
\* a URL by the lookup and is not enriched.
C11_Witness ==
    /\ pc = "request"
    /\ idx = 2
    /\ linkedin[persons[1]] = Some(HrefA)
    /\ details[persons[1]] = None

----------------------------------------------------------------------------
(* Claims about analyze_profile, checked under SpecAnalyze. *)

\* The dict analyze_profile was given, and the one it returned.
Given == ProfileToDict(linkedin_profile[1])
Returned == analysis_result[1]

\* The conscientiousness score of the given profile is below x points.
ConscientiousnessBelow(x) ==
    ConscientiousnessNum(Given) < 100 * x * ConscientiousnessDen(Given)

\* C12: the archetype returned is "Dud energy" if and only if the profile
\* has fewer than 3 experience entries, an extraversion score below 21 and a
\* conscientiousness score below 31.
C12_DudEnergyIff ==
    pc = "store" =>
        (Returned.archetype = "Dud energy"
            <=> /\ Len(Given.Experiences) < 3
                /\ calculate_extraversion_score(Given) < 2100
                /\ ConscientiousnessBelow(31))

\* Three entries with both scores low: the count alone prevents the label.
C12_Witness ==
    /\ pc = "store"
    /\ Len(Given.Experiences) = 3
    /\ calculate_extraversion_score(Given) < 2100
    /\ ConscientiousnessBelow(31)
    /\ Returned.archetype # "Dud energy"

\* C13 as stated: for every profile record, a malformed one included, the
\* extraversion score, the conscientiousness score and the fit score
\* returned lie between 0 and 100.
C13_ScoresWithinRange ==
    pc = "store" =>
        /\ Returned.extraversion_score \in 0 .. 10000
        /\ Returned.conscientiousness_score \in 0 .. 10000
        /\ Returned.group_project_fit_score \in 0 .. 10000

\* C14: for a profile without experiences analyze_profile does not raise,
\* the extraversion score is the follower contribution alone and the
\* conscientiousness score is the verification contribution alone.
C14_ZeroExperiences ==
    Given.Experiences = << >> =>
        /\ ~raised
        /\ pc = "store" =>
            /\ Returned.extraversion_score
                    = (IF Given.Followers >= 2000 THEN 4000
                       ELSE 2 * Given.Followers)
            /\ Returned.conscientiousness_score
                    = (IF Given.Verified THEN 2000 ELSE 0)

C14_Witness ==
    /\ pc = "store"
    /\ Given.Experiences = << >>
    /\ Given.Verified
    /\ Given.Followers = 1000
    /\ Returned.extraversion_score = 2000
    /\ Returned.conscientiousness_score = 2000

\* What the followers add to the extraversion score returned: the score
\* less the leadership and the community contributions.
FollowerContribution ==
    Returned.extraversion_score
    - 100 * Min(30, 10 * LeadershipCount(Given.Experiences))
    - 100 * Min(30, 10 * CommunityCount(Given.Experiences))

\* C15: for a follower count f >= 0 the follower contribution is
\* min(40, f / 50); it is at most 40, is 40 exactly from f = 2000 on, and
\* no smaller count contributes more.
C15_FollowerContribution ==
    (pc = "store" /\ Given.Followers >= 0) =>
        LET f == Given.Followers
        IN /\ 50 * FollowerContribution
                = 100 * (IF f <= 40 * 50 THEN f ELSE 40 * 50)
           /\ FollowerContribution <= 4000
           /\ FollowerContribution = 4000 <=> f >= 2000
           /\ \A g \in FollowerCounts :
                (0 <= g /\ g <= f) => FollowerScore(g) <= FollowerContribution

\* A count above 2000 on a profile with experiences: the cap is in force.
C15_Witness ==
    /\ pc = "store"
    /\ Given.Followers = 2500
    /\ Given.Experiences # << >>
    /\ FollowerContribution = 4000

\* C16: the fit score returned is 0.4 * extraversion + 0.6 *
\* conscientiousness of the same profile, rounded to two decimals (it is
\* within half a hundredth of the exact value), and the scores returned are
\* the rounded values of the two score functions; for the verified profile
\* with 2000 followers and the one experience "Director" / "led the team
\* community outreach", extraversion is 60 and the fit score 52.8.
C16_FitScore ==
    pc = "store" =>
        LET e == calculate_extraversion_score(Given)
            n == ConscientiousnessNum(Given)
            d == ConscientiousnessDen(Given)
            fit == Returned.group_project_fit_score
            off == 10 * d * fit - (4 * e * d + 6 * n)
        IN /\ Returned.extraversion_score = e
           /\ Returned.conscientiousness_score = RoundDiv(n, d)
           /\ 2 * off <= 10 * d
           /\ -2 * off <= 10 * d
           /\ (/\ Given.Followers = 2000
               /\ Given.Verified
               /\ linkedin_profile[1].experiences = ProfileB.experiences)
                => /\ e = 6000
                   /\ n = 4800 * d
                   /\ fit = 5280

C16_Witness ==
    /\ pc = "store"
    /\ Given.Followers = 2000
    /\ Given.Verified
    /\ linkedin_profile[1].experiences = ProfileB.experiences
    /\ Returned.extraversion_score = 6000
    /\ Returned.group_project_fit_score = 5280

----------------------------------------------------------------------------
(* Further claims about the pipeline (SpecPipeline), run_analysis (Spec)   *)
(* and fetch_linkedin_url (SpecLookup).                                    *)

\* C17 as stated: analyze_linkedin_profiles returns (no exception leaves
\* it), and when it has returned every person with a profile URL has
\* details.
C17_AnalyzeFillsDetails ==
    /\ pc # "raised"
    /\ pc \in {"done", "sorted"} =>
        \A p \in Ids : Truthy(linkedin[p]) => details[p] # None

\* C18: the step of run_analysis in which login fails changes nothing: the
\* roster has the same persons in the same order, no person's URL, details
\* or personality_score changes, and nothing is scraped or analysed.
C18_LoginFailureLeavesRoster ==
    [][(pc = "login" /\ pc' = "done")
        => UNCHANGED <<persons, linkedin, details, personality_score,
                       linkedin_profile, analysis_result, sentiment>>]_vars

\* run_analysis has returned after a failed login: the loop never ran, and
\* a person with a URL has no details.
C18_Witness ==
    /\ pc = "done"
    /\ idx = 1
    /\ persons = [i \in Ids |-> i]
    /\ \E p \in Ids : Truthy(linkedin[p])
    /\ \A p \in Ids : details[p] = None /\ personality_score[p] = None

\* C19 as stated: once run_analysis is through with a person whose analysis
\* it stored, that person's personality_score is set.
C19_PersonalityScoreSet ==
    \A p \in Ids :
        (details[p] # None /\ ~(pc = "score" /\ Current = p))
            => personality_score[p] # None

\* C20: a value returned by fetch_linkedin_url is None or a link that
\* contains "linkedin.com/in".
C20_ReturnedLinkHasMarker ==
    pc = "returned" => (result = None \/ Contains(result[1], Marker))

\* The first result item links to a page that is no profile; the call
\* returns None.
C20_Witness ==
    /\ pc = "returned"
    /\ page.ol
    /\ page.items # << >>
    /\ page.items[1].div
    /\ page.items[1].a
    /\ page.items[1].href = HrefCompany
    /\ result = None

----------------------------------------------------------------------------
(* Further claims about URLFinder (SpecLookup, SpecLookupFair). *)

\* A call of fetch_linkedin_url is in progress.
InFetch == pc \in {"gate", "request", "backoff", "returned"}

\* C21: a lookup runs only for a person whose linkedin is unset, and a
\* step changes a person's linkedin only from unset to a found URL: a
\* pre-supplied URL causes no request and is never cleared or overwritten.
C21_LookupOnlyForUnset ==
    /\ [](InFetch => ~Truthy(linkedin[persons[idx]]))
    /\ [][\A p \in Ids :
            linkedin'[p] # linkedin[p] =>
                /\ ~Truthy(linkedin[p])
                /\ Truthy(linkedin'[p])
                /\ linkedin'[p] = result
                /\ p = persons[idx]]_vars

\* The first person came with a URL and was passed over: no request has
\* been sent, and the URL is as it was.
C21_Witness ==
    /\ pc = "loop"
    /\ idx = 2
    /\ linkedin[persons[1]] = Some(HrefPre)
    /\ last_request_time = 0
    /\ updated_count = 0

\* C27: one call of fetch_linkedin_url sends at most max_retries requests,
\* and each request, a retry as well, is sent right after the rate-limit gate
\* was passed for that attempt: the sending position is entered from the
\* gate only and left with the request.
C27_RequestsBoundedAndGated ==
    /\ [](Len(attempts) <= max_retries)
    /\ [](pc = "request" => last_request_time = now /\ Len(attempts) < max_retries)
    /\ [][Len(attempts') = Len(attempts) + 1
            => pc = "request" /\ pc' # "request"]_vars
    /\ [][(pc' = "request" /\ pc # "request") => pc = "gate"]_vars

\* The last request the call may send is about to go out, after two
\* failures, and the gate has been passed for it.
C27_Witness ==
    /\ pc = "request"
    /\ Len(attempts) = max_retries - 1
    /\ retries = max_retries - 1
    /\ last_request_time = now

\* The steps one person can take at most, and a bound on the steps still to
\* come: it counts the persons not yet passed and, within a call, the
\* attempts not yet used.
StepsPerPerson == 3 * max_retries + 3

StepsLeft ==
    (Len(persons) + 1 - idx) * StepsPerPerson
    + (CASE pc = "loop" -> 3 * max_retries + 2
         [] pc = "gate" -> 3 * (max_retries - retries) + 1
         [] pc = "request" -> 3 * (max_retries - retries)
         [] pc = "backoff" -> 3 * (max_retries - retries) - 1
         [] OTHER -> 0)

\* C28: fetch_linkedin_url and update_person_list terminate whatever the
\* server answers: every step lowers a bound on the steps left, which never
\* falls below 0, the only state without a next step is the end of the
\* roster loop, and the loop moves through the roster one person at a time,
\* in order, each person once.
C28_LookupTerminates ==
    /\ [][StepsLeft' < StepsLeft]_vars
    /\ [](StepsLeft >= 0)
    /\ [](pc # "done" => ENABLED NextLookup)
    /\ [](pc = "done" => idx = Len(persons) + 1)
    /\ [][idx' # idx => (idx' = idx + 1 /\ idx <= Len(persons))]_vars

\* The roster loop has ended after a lookup that used up its retries.
C28_Witness ==
    /\ pc = "done"
    /\ idx = Len(persons) + 1
    /\ now > 2 * MaxInterval + 7

----------------------------------------------------------------------------
(* Further claims about analyze_profile, checked under SpecAnalyze. *)

\* The entry has at least one of its four fields present.
NotFullyEmpty(exp) ==
    \/ exp.role # None
    \/ exp.company # None
    \/ exp.date_range # None
    \/ exp.description # None

\* The entry has a role, a date range or a description that is not blank.
EarnsPoints(exp) ==
    \/ NonBlank(exp.role)
    \/ NonBlank(exp.date_range)
    \/ NonBlank(exp.description)

NumNotFullyEmpty ==
    Cardinality({i \in DOMAIN Given.Experiences :
                    NotFullyEmpty(Given.Experiences[i])})

NumEarningPoints ==
    Cardinality({i \in DOMAIN Given.Experiences :
                    EarnsPoints(Given.Experiences[i])})

\* The conscientiousness score of the given profile, in hundredths, when
\* the completeness denominator and the consistency thresholds use the
\* count valid.
ConscientiousnessWithCount(valid) ==
    LET exps == Given.Experiences
        den == IF valid > 0 THEN valid ELSE 1
        points(exp) == (IF NonBlank(exp.role) THEN 3 ELSE 0)
                       + (IF NonBlank(exp.date_range) THEN 3 ELSE 0)
                       + (IF NonBlank(exp.description) THEN 4 ELSE 0)
        total == Sum([i \in DOMAIN exps |-> points(exps[i])], Len(exps))
        verification == IF Given.Verified THEN 20 ELSE 0
        consistency == IF valid >= 4 THEN 20 ELSE IF valid >= 2 THEN 10 ELSE 0
        detail == 5 * Cardinality({i \in DOMAIN exps :
                        /\ NonBlank(exps[i].description)
                        /\ WordCount(exps[i].description[1]) >= 20})
        completeness == IF valid > 0 THEN Min(4000 * den, 400 * total) ELSE 0
    IN RoundDiv(Min(10000 * den,
                    100 * den * (verification + consistency + detail)
                        + completeness),
                den)

\* C22 as stated: the count used as the completeness denominator and for
\* the consistency thresholds (20 from 4 on, 10 from 2 on, else 0) is the
\* number of entries with at least one of role, company, date_range and
\* description present.
C22_ValidCountsNotFullyEmpty ==
    pc = "store" =>
        Returned.conscientiousness_score
            = ConscientiousnessWithCount(NumNotFullyEmpty)

\* C22, amended: the count used as the completeness denominator and for
\* the consistency thresholds is the number of entries with a non-blank
\* role, date range or description; an entry with only a company, or with
\* only whitespace in those fields, is not counted.
C22_ValidCountsEarningEntries ==
    pc = "store" =>
        Returned.conscientiousness_score
            = ConscientiousnessWithCount(NumEarningPoints)

\* An entry with only a company next to one entry with a role: one valid
\* entry, no consistency points, where two entries are not fully empty.
C22_Witness ==
    /\ pc = "store"
    /\ NumNotFullyEmpty = 2
    /\ NumEarningPoints = 1
    /\ \E i \in DOMAIN Given.Experiences :
            Given.Experiences[i].company # None
    /\ Returned.conscientiousness_score
            # ConscientiousnessWithCount(NumNotFullyEmpty)

\* The entries of the given profile whose role is not empty and matches a
\* leadership keyword, and those whose description is not empty and matches
\* a community keyword.
LeadershipEntries ==
    {i \in DOMAIN Given.Experiences :
        LET role == Given.Experiences[i].role
        IN /\ NonBlank(role)
           /\ \E kw \in leadership_keywords : HasKeyword(role[1], kw)}

CommunityEntries ==
    {i \in DOMAIN Given.Experiences :
        LET description == Given.Experiences[i].description
        IN /\ NonBlank(description)
           /\ \E kw \in community_keywords : HasKeyword(description[1], kw)}

\* C23: the extraversion score is min(100, follower contribution
\* + min(30, 10 * entries with a non-empty role matching a leadership
\* keyword) + min(30, 10 * entries with a non-empty description matching a
\* community keyword)); without a non-empty role nothing is added for
\* leadership, without a non-empty description nothing for community.
C23_ExtraversionScore ==
    pc = "store" =>
        LET exps == Given.Experiences
            follower == Min(4000, 2 * Given.Followers)
            leadership == 100 * Min(30, 10 * Cardinality(LeadershipEntries))
            community == 100 * Min(30, 10 * Cardinality(CommunityEntries))
            score == Returned.extraversion_score
        IN /\ score = Min(10000, follower + leadership + community)
           /\ (\A i \in DOMAIN exps : ~NonBlank(exps[i].role))
                => score = Min(10000, follower + community)
           /\ (\A i \in DOMAIN exps : ~NonBlank(exps[i].description))
                => score = Min(10000, follower + leadership)

\* Four entries that each match both keyword sets: both caps of 30 are in
\* force and the score is 100.
C23_Witness ==
    /\ pc = "store"
    /\ Given.Followers = 2000
    /\ Cardinality(LeadershipEntries) = 4
    /\ Cardinality(CommunityEntries) = 4
    /\ Returned.extraversion_score = 10000

\* The keywords of archetype a found in the text of entry i of the given
\* profile.
KeywordHits(i, a) ==
    Cardinality({kw \in archetype_keywords(a) :
                    HasKeyword(ExperienceText(Given.Experiences[i]), kw)})

\* Twice the score archetype a collected over the sentiment calls made:
\* each hit weighs 1.5 after a positive answer and 1 otherwise.  The
\* normalized score is this sum divided by twice the number of calls.
CollectedScore(a) ==
    Sum([k \in DOMAIN sentiment |->
            KeywordHits(sentiment[k][1], a)
                * (IF sentiment[k][2] = "positive" THEN 3 ELSE 2)],
        Len(sentiment))

\* C24: when the Dud rule does not apply and some normalized score is
\* positive, the label returned is the one with the highest score, and
\* among several with the highest score the one declared first (Tech, ML/AI,
\* Finance, Business).
C24_HighestScoreFirstDeclared ==
    (/\ pc = "store"
     /\ ~DudEnergy(Given)
     /\ \E k \in DOMAIN Archetypes : CollectedScore(Archetypes[k]) > 0) =>
        \E k \in DOMAIN Archetypes :
            /\ Returned.archetype = ReplaceUnderscore(Archetypes[k])
            /\ \A j \in DOMAIN Archetypes :
                    CollectedScore(Archetypes[j]) <= CollectedScore(Archetypes[k])
            /\ \A j \in 1 .. (k - 1) :
                    CollectedScore(Archetypes[j]) < CollectedScore(Archetypes[k])

\* A financial analyst entry before a software engineer entry, no positive
\* sentiment: Tech and Finance tie and the first declared, Tech, is returned.
C24_Witness ==
    /\ pc = "store"
    /\ ~DudEnergy(Given)
    /\ CollectedScore("Tech_Bro") > 0
    /\ CollectedScore("Tech_Bro") = CollectedScore("Finance_Bro")
    /\ KeywordHits(1, "Finance_Bro") > 0
    /\ Returned.archetype = "Tech Bro"

\* The four keyword labels as returned, the low-signal label and the
\* default fallback label.
KeywordLabels == {ReplaceUnderscore(Archetypes[k]) : k \in DOMAIN Archetypes}
FallbackLabel == "Business_Dud"
Outcomes == KeywordLabels \cup {"Dud energy", FallbackLabel}

\* C25: when the Dud rule does not apply and all normalized scores are 0,
\* the default fallback label is returned; that label is returned in no
\* other case and differs from the five other outcomes, so the result is
\* one of exactly six.
C25_FallbackLabel ==
    pc = "store" =>
        /\ Returned.archetype = FallbackLabel
                <=> /\ ~DudEnergy(Given)
                    /\ \A k \in DOMAIN Archetypes :
                            CollectedScore(Archetypes[k]) = 0
        /\ Returned.archetype \in Outcomes
        /\ FallbackLabel \notin KeywordLabels \cup {"Dud energy"}
        /\ Cardinality(Outcomes) = 6

\* Entries with text were scanned, none matched a keyword of any archetype,
\* and the fallback label came back.
C25_Witness ==
    /\ pc = "store"
    /\ ~DudEnergy(Given)
    /\ sentiment # << >>
    /\ \A k \in DOMAIN Archetypes : CollectedScore(Archetypes[k]) = 0
    /\ Returned.archetype = FallbackLabel

\* C26: when determine_archetype returns "Dud energy" it has returned before
\* the loop over the experiences: the sentiment capability was not called
\* during the call, no keyword of the entries' texts changed the result, and
\* a failing sentiment capability cannot make the call raise.
C26_DudEnergyShortCircuits ==
    /\ (pc = "store" /\ Returned.archetype = "Dud energy") => sentiment = << >>
    /\ (pc # "analyze" /\ DudEnergy(Given)) =>
            /\ ~raised
            /\ sentiment = << >>
            /\ Returned.archetype = "Dud energy"

\* A low-scoring profile whose entry has text with an archetype keyword:
\* labelled "Dud energy" without a sentiment call.
C26_Witness ==
    /\ pc = "store"
    /\ Returned.archetype = "Dud energy"
    /\ 1 \in Contributing(Given.Experiences)
    /\ KeywordHits(1, "Business_Dud") > 0
    /\ sentiment = << >>

\* No entry of the given profile carries role or description text.
NoEntryWithText ==
    \A i \in DOMAIN Given.Experiences :
        /\ ~NonBlank(Given.Experiences[i].role)
        /\ ~NonBlank(Given.Experiences[i].description)

\* C30: the Dud rule counts the experience entries as given, fully empty
\* ones included: a profile with three or more entries is never labelled
\* "Dud energy", whatever its scores, and when none of its entries carries
\* role or description text the default fallback label is returned.
C30_ThreeEntriesNeverDud ==
    (pc = "store" /\ Len(Given.Experiences) >= 3) =>
        /\ Returned.archetype # "Dud energy"
        /\ NoEntryWithText => Returned.archetype = FallbackLabel

\* Three fully empty entries, both scores 0: no valid entry is counted by
\* the scores, yet the label is the fallback and not "Dud energy".
C30_Witness ==
    /\ pc = "store"
    /\ Len(Given.Experiences) = 3
    /\ NumNotFullyEmpty = 0
    /\ Returned.extraversion_score = 0
    /\ Returned.conscientiousness_score = 0
    /\ Returned.archetype = FallbackLabel

----------------------------------------------------------------------------
(* Further claims about run_analysis, checked under Spec. *)

\* The analysis of the default empty LinkedInProfile.
DefaultAnalysis ==
    [name |-> "",
     extraversion_score |-> 0,
     conscientiousness_score |-> 0,
     archetype |-> "Dud energy",
     group_project_fit_score |-> 0]

====
